---- MODULE Spec2Model ----
(***************************************************************************)
(* The client-side controller of the bean dependency graph viewer          *)
(* (src/unnamed/part_000): the `state` object, the page elements the       *)
(* handlers read back, the provider requests in flight, and one action per *)
(* event handler or resumed async function.                                *)
(*                                                                         *)
(* JavaScript runs one handler at a time.  An async function runs up to    *)
(* its `await fetch(...)` inside the handler that called it and resumes,   *)
(* in one piece, when the response is there: so every action below is a    *)
(* whole handler or a whole resumption.                                    *)
(***************************************************************************)
EXTENDS Integers, Sequences, FiniteSets, TLC

\* How many times the user asks for data (a load or a filter change) after
\* start-up.  The requests a handler issues on its own (the start-up roots
\* listing, the reload that follows a filter change) are not counted.
MaxRequests == 2

\* How many timer tasks of the detail panel may wait while the user goes on
\* clicking and typing: with that many waiting, the user waits for one to run.
MaxTimers == 2

-----------------------------------------------------------------------------
(* Values                                                                  *)

\* JavaScript null for a string-valued field (ids are never "null").
Null == "null"
\* JavaScript null for an object-valued field (graphData, chainSummary).
NoData == [isNull |-> TRUE]

Range(seq) == {seq[i] : i \in 1..Len(seq)}

RECURSIVE Filter(_, _)
\* Array.prototype.filter with the predicate "is a member of keep".
Filter(seq, keep) ==
  IF seq = <<>> THEN <<>>
  ELSE (IF Head(seq) \in keep THEN <<Head(seq)>> ELSE <<>>) \o Filter(Tail(seq), keep)

\* The sub-sequences of seq (what a multi-select can have selected, in option order).
SubSeqs(seq) == {Filter(seq, S) : S \in SUBSET Range(seq)}

\* Strings are TLA+ strings; Chars spells the ones the model uses so that
\* trim, toLowerCase and includes work on characters.
Text == {"", " ", "b", " B ", "ab", "x", "B", "A", "Ab"}

Chars(s) ==
  CASE s = ""    -> <<>>
    [] s = " "   -> <<" ">>
    [] s = "b"   -> <<"b">>
    [] s = " B " -> <<" ", "B", " ">>
    [] s = "ab"  -> <<"a", "b">>
    [] s = "x"   -> <<"x">>
    [] s = "B"   -> <<"B">>
    [] s = "A"   -> <<"A">>
    [] s = "Ab"  -> <<"A", "b">>

Str(cs) == CHOOSE s \in Text : Chars(s) = cs

LowerChar(c) == CASE c = "A" -> "a" [] c = "B" -> "b" [] OTHER -> c

\* String.prototype.toLowerCase, on characters.
ToLowerCase(cs) == [i \in 1..Len(cs) |-> LowerChar(cs[i])]

RECURSIVE TrimStart(_)
TrimStart(cs) == IF cs # <<>> /\ Head(cs) = " " THEN TrimStart(Tail(cs)) ELSE cs

RECURSIVE TrimEnd(_)
TrimEnd(cs) ==
  IF cs # <<>> /\ cs[Len(cs)] = " " THEN TrimEnd(SubSeq(cs, 1, Len(cs) - 1)) ELSE cs

\* String.prototype.trim.
Trim(s) == Str(TrimEnd(TrimStart(Chars(s))))

\* String.prototype.includes, on characters.
Includes(hay, needle) ==
  \E i \in 0..(Len(hay) - Len(needle)) : SubSeq(hay, i + 1, i + Len(needle)) = needle

-----------------------------------------------------------------------------
(* The provider                                                            *)

RootIds == {"A", "B"}

\* What the filter parameters of a request are built from (loadRoots, lines
\* 186-195, and buildGraphDataUrl, lines 94-102): a parameter that is not set
\* is FALSE, or the empty list for thirdPartyPackages.
FilterParams(s) ==
  [excludeSpring      |-> s.excludeSpring,
   excludeThirdParty  |-> s.excludeThirdParty,
   thirdPartyPackages |-> IF s.excludeThirdParty /\ Len(s.selectedThirdPartyPackages) > 0
                          THEN s.selectedThirdPartyPackages ELSE <<>>]

\* A JavaScript value used as a condition: null and '' are false.
Truthy(v) == v \notin {Null, ""}

\* A query that carries the package list whether or not third-party beans
\* are excluded.
buildGraphDataUrlWithPackages(s, root) ==
  [path |-> "/graph-data", root |-> IF Truthy(root) THEN root ELSE "all",
   excludeSpring |-> s.excludeSpring, excludeThirdParty |-> s.excludeThirdParty,
   thirdPartyPackages |-> s.selectedThirdPartyPackages]

\* A query built for the root that is displayed, not for the root asked for.
buildGraphDataUrlOfDisplayed(s, root) ==
  [path |-> "/graph-data", root |-> IF Truthy(s.currentRoot) THEN s.currentRoot ELSE "all"]
    @@ FilterParams(s)

buildGraphDataUrl(s, root) ==
  [path |-> "/graph-data", root |-> IF Truthy(root) THEN root ELSE "all"] @@ FilterParams(s)

RootsUrl(s) == [path |-> "/roots"] @@ FilterParams(s)

\* The bodies a roots listing can come back with.  `fields` are the fields the
\* JSON has; a package is written as its id (pkg.package || pkg.name || pkg.id),
\* an unused chain as its root.
RootsBodies ==
  { [fields |-> {"roots", "unusedChains", "thirdPartyPackages"},
     roots |-> <<"A", "B">>, unusedChains |-> <<"B">>,
     thirdPartyPackages |-> <<"pkg1", "pkg2">>],
    [fields |-> {"roots", "unusedChains", "thirdPartyPackages"},
     roots |-> <<"B">>, unusedChains |-> <<>>,
     thirdPartyPackages |-> <<"pkg1">>],
    [fields |-> {},
     roots |-> <<>>, unusedChains |-> <<>>, thirdPartyPackages |-> <<>>] }

\* A response: a network error or a non-2xx status (ok = FALSE), or a body.
Failure == [ok |-> FALSE]

RootsResponses == {Failure} \cup {[ok |-> TRUE, data |-> b] : b \in RootsBodies}

\* The shapes of a graph-data body.  GraphBody adds the request it answers.
GraphShapes ==
  { [fields |-> {"nodes", "edges", "chainSummary"},
     nodes |-> <<"A", "B">>, edges |-> << <<"A", "B">> >>, thirdPartyPackages |-> <<>>],
    [fields |-> {"nodes", "edges", "chainSummary", "thirdPartyPackages"},
     nodes |-> <<"B", "Ab", "A", "ab">>, edges |-> << <<"A", "B">>, <<"A", "Ab">> >>,
     thirdPartyPackages |-> <<"pkg1", "pkg2">>],
    [fields |-> {"nodes", "edges"},
     nodes |-> <<>>, edges |-> <<>>, thirdPartyPackages |-> <<>>],
    [fields |-> {"edges", "chainSummary"},
     nodes |-> <<>>, edges |-> <<>>, thirdPartyPackages |-> <<>>],
    [fields |-> {"nodes", "chainSummary"},
     nodes |-> <<"A", "B">>, edges |-> <<>>, thirdPartyPackages |-> <<>>],
    [fields |-> {"nodes"},
     nodes |-> <<>>, edges |-> <<>>, thirdPartyPackages |-> <<>>] }

GraphBody(t, shape) ==
  shape @@ [req |-> t.id, query |-> t.query,
            chainSummary |-> [root |-> t.root, nodeCount |-> Len(shape.nodes)]]

GraphResponses(t) == {Failure} \cup {[ok |-> TRUE, data |-> GraphBody(t, sh)] : sh \in GraphShapes}

\* `node.dependencies || []`: A depends on B, Ab and x; x is a bean that no
\* snapshot of the model contains.
Dependencies(node) ==
  CASE node = "A" -> <<"B", "Ab", "x">>
    [] OTHER      -> <<>>

\* `node.dependents || []`
Dependents(node) ==
  CASE node = "B"  -> <<"A">>
    [] node = "Ab" -> <<"A">>
    [] OTHER       -> <<>>

\* The ids the detail panel lists for a node: its dependencies, then its
\* dependents.
RelationItems(node) == Dependencies(node) \o Dependents(node)

\* The timer tasks one showDetails(node) sets: renderRelationList sets one
\* for each of the two lists that is not empty (lines 896-898, 912).
TimerTasks(node) ==
  IF node = Null THEN 0
  ELSE (IF Dependencies(node) # <<>> THEN 1 ELSE 0)
       + (IF Dependents(node) # <<>> THEN 1 ELSE 0)

\* `data.f || []`
FieldOrEmpty(data, f) == IF f \in data.fields THEN data[f] ELSE <<>>

-----------------------------------------------------------------------------
(* The page functions.  A world w is [state |-> the `state` object,        *)
(* dom |-> the page]; a function of the source that changes either is an   *)
(* operator from worlds to worlds.                                         *)

setStatus(w, message, level) ==
  [w EXCEPT !.dom.status = [message |-> message, level |-> level]]

updateSearchNavButtons(w) ==
  [w EXCEPT !.dom.navDisabled =
     ~(w.state.nodeSelection # <<>> /\ Len(w.state.searchMatches) > 0)]

\* Whether highlightNode pans: `center && nodeId && state.zoom && state.svg`
\* and the node is in the selection.
Pans(s, nodeId, center) ==
  center /\ Truthy(nodeId) /\ s.zoom /\ s.svg /\ nodeId \in Range(s.nodeSelection)

\* A highlight that decorates the node without undecorating the others.
highlightNodeAdding(w, nodeId, center) ==
  IF w.state.nodeSelection = <<>> THEN w
  ELSE [w EXCEPT
          !.dom.highlighted = @ \cup {id \in Range(w.dom.nodes) : id = nodeId},
          !.state.highlightedNode = nodeId,
          !.dom.pan = IF Pans(w.state, nodeId, center) THEN nodeId ELSE @]

highlightNode(w, nodeId, center) ==
  IF w.state.nodeSelection = <<>> THEN w
  ELSE [w EXCEPT
          !.dom.highlighted = {id \in Range(w.dom.nodes) : id = nodeId},
          !.state.highlightedNode = nodeId,
          !.dom.pan = IF Pans(w.state, nodeId, center) THEN nodeId ELSE @]

\* showDetails(node); `links` are the ids renderRelationList renders as
\* buttons: `state.nodeById.has(item)` (lines 902-905).  The buttons are new
\* elements without a click listener: `listeners` is the number of click
\* listeners each button of the panel has.  `timers` is the number of timer
\* tasks that wait: renderRelationList sets one for each list that is not
\* empty (lines 896-898, 912).
showDetails(w, node) ==
  [w EXCEPT !.dom.details = node,
            !.dom.links = IF node = Null THEN {}
                          ELSE {item \in Range(RelationItems(node)) :
                                  item \in w.state.nodeById},
            !.dom.listeners = 0,
            !.dom.timers = @ + TimerTasks(node)]

\* The buttons of the detail panel that have a click listener.
Armed(page) == IF page.listeners > 0 THEN page.links ELSE {}

\* One timer task of renderRelationList (lines 912-925): every button that
\* the detail panel holds by now gets one more click listener.
relationTimer(w) ==
  [w EXCEPT !.dom.listeners = IF w.dom.links # {} THEN @ + 1 ELSE @,
            !.dom.timers = @ - 1]

\* A click listener that does not look the target up.
clickRelationUnchecked(w, target) ==
  showDetails(highlightNode(w, target, TRUE), target)

\* The click listener of a relation button (lines 915-923).
clickRelation(w, target) ==
  IF target \in w.state.nodeById
  THEN showDetails(highlightNode(w, target, TRUE), target)
  ELSE setStatus(w, "not-in-current-view", "warn")

\* A click on a button runs each of the n listeners it has, one after the
\* other, also when the first has replaced the panel.
RECURSIVE clickButton(_, _, _)
clickButton(w, target, n) ==
  IF n = 0 THEN w ELSE clickButton(clickRelation(w, target), target, n - 1)

\* `packages.map(...).filter(Boolean)`
PackageIds(packages) == SelectSeq(packages, LAMBDA p : p # "")

\* A default selection that selects nothing.
getNoThirdPartyPackageIds(s) == <<>>

getAllThirdPartyPackageIds(s) == PackageIds(s.availableThirdPartyPackages)

\* A rendering of the package options that leaves the selection as it is.
renderThirdPartyPackageOptionsKeeping(w) == w

renderThirdPartyPackageOptions(w) ==
  LET availableValues == PackageIds(w.state.availableThirdPartyPackages)
  IN [w EXCEPT !.state.selectedThirdPartyPackages = Filter(@, Range(availableValues))]

populateRootSelect(w, roots) ==
  [w EXCEPT !.dom.rootOptions = roots, !.dom.rootValue = ""]

\* `select.value = v`: the value sticks only if an option has it.
SetRootValue(w, v) ==
  [w EXCEPT !.dom.rootValue = IF v \in Range(w.dom.rootOptions) THEN v ELSE ""]

renderUnusedChains(w) == [w EXCEPT !.dom.unusedList = w.state.unusedChains]

clearGraphView(w) ==
  LET w1 == [w EXCEPT
               !.dom.running = @ \ {w.state.simulation},
               !.state.simulation = 0,
               !.dom.nodes = <<>>,
               !.dom.highlighted = {},
               !.state.svg = TRUE,
               !.state.zoom = FALSE,
               !.state.nodeSelection = <<>>,
               !.state.nodeById = {},
               !.state.highlightedNode = Null,
               !.state.searchMatches = <<>>,
               !.state.searchIndex = -1]
  IN showDetails(highlightNode(updateSearchNavButtons(w1), Null, FALSE), Null)

\* buildGraph(data): the world it leaves and whether it threw (a TypeError on
\* `data.nodes.length`, or in `.data(data.edges)`, when the array is missing).
buildGraph(w, data) ==
  LET w1 == [w EXCEPT !.dom.nodes = <<>>, !.dom.highlighted = {}]
      w2 == [w1 EXCEPT !.dom.running = @ \ {w.state.simulation}, !.state.zoom = TRUE]
      w3 == [w2 EXCEPT
               !.dom.nodes = data.nodes,
               !.state.simulation = data.req,
               !.dom.running = @ \cup {data.req},
               !.state.svg = TRUE,
               !.state.nodeSelection = data.nodes,
               !.state.nodeById = Range(data.nodes),
               !.state.highlightedNode = Null]
  IN IF "nodes" \notin data.fields THEN [w |-> w1, threw |-> TRUE]
     ELSE IF Len(data.nodes) = 0
       THEN [w |-> showDetails([w1 EXCEPT !.state.nodeSelection = <<>>,
                                          !.state.nodeById = {}], Null),
             threw |-> FALSE]
     ELSE IF "edges" \notin data.fields THEN [w |-> w2, threw |-> TRUE]
     ELSE [w |-> showDetails(highlightNode(w3, Null, FALSE), Null), threw |-> FALSE]

\* The datum of a node: the object of one snapshot's `nodes` array, which the
\* simulation made for that snapshot lays out.  No datum is being dragged.
NoDrag == [id |-> Null, snap |-> 0]

\* drag 'start' on a node (lines 519-523).
dragStart(w, id) ==
  LET d == [id |-> id, snap |-> w.state.simulation]
  IN [w EXCEPT !.dom.running = @ \cup {w.state.simulation},
               !.dom.pinned = @ \cup {d},
               !.dom.dragging = d]

\* drag 'drag' (lines 524-527).
dragMove(w) == [w EXCEPT !.dom.pinned = @ \cup {w.dom.dragging}]

\* A drag 'end' that leaves the node where it was dropped.
dragEndKeeping(w) == [w EXCEPT !.dom.dragging = NoDrag]

\* drag 'end' (lines 528-532): `state.simulation.alphaTarget(0)` throws when
\* the view was cleared meanwhile, before the pin is released.
dragEnd(w) ==
  IF w.state.simulation = 0 THEN [w EXCEPT !.dom.dragging = NoDrag]
  ELSE [w EXCEPT !.dom.pinned = @ \ {w.dom.dragging}, !.dom.dragging = NoDrag]

-----------------------------------------------------------------------------
(* Search                                                                  *)

\* A match that compares the characters as they are typed.
MatchesCaseSensitive(id, searchTerm) ==
  /\ searchTerm # ""
  /\ Includes(Chars(id), Chars(searchTerm))

\* A match that lets the empty term match every node.
MatchesEmptyTerm(id, searchTerm) ==
  Includes(ToLowerCase(Chars(id)), ToLowerCase(Chars(searchTerm)))

\* `hasTerm && d.id.toLowerCase().includes(term)` with term = searchTerm.toLowerCase()
Matches(id, searchTerm) ==
  /\ searchTerm # ""
  /\ Includes(ToLowerCase(Chars(id)), ToLowerCase(Chars(searchTerm)))

\* `state.nodeSelection.select('circle')`: the circles of the <g> elements
\* of the selection.  A <g> that `svg.selectAll('*').remove()` (line 453) took
\* off the page has lost its circle, and a buildGraph that threw after it
\* leaves such elements in state.nodeSelection.
Circles(w) ==
  SelectSeq(w.state.nodeSelection, LAMBDA id : id \in Range(w.dom.nodes))

\* The ids pushed to `matches` by the callback that runs once for each
\* circle, in the order of the selection.
MatchList(circles, searchTerm) ==
  SelectSeq(circles, LAMBDA id : Matches(id, searchTerm))

\* `state.searchMatches[state.searchIndex]`: an array read at a zero-based
\* index, which is undefined (no node id) outside the array.
At(array, index) ==
  IF 0 <= index /\ index < Len(array) THEN array[index + 1] ELSE Null

applySearchTerm(w, resetIndex, centerOnMatch) ==
  IF w.state.nodeSelection = <<>>
  THEN updateSearchNavButtons([w EXCEPT !.state.searchMatches = <<>>,
                                        !.state.searchIndex = -1])
  ELSE
    LET hasTerm == w.state.searchTerm # ""
        matches == MatchList(Circles(w), w.state.searchTerm)
        idx1    == IF resetIndex THEN (IF Len(matches) > 0 THEN 0 ELSE -1)
                   ELSE IF w.state.searchIndex >= Len(matches)
                        THEN (IF Len(matches) > 0 THEN Len(matches) - 1 ELSE -1)
                   ELSE w.state.searchIndex
        w1      == updateSearchNavButtons([w EXCEPT !.state.searchMatches = matches,
                                                    !.state.searchIndex = idx1])
        idx2    == IF idx1 < 0 THEN 0 ELSE idx1
        nodeId  == At(matches, idx2)
        w2      == highlightNode([w1 EXCEPT !.state.searchIndex = idx2], nodeId, centerOnMatch)
        w3      == IF nodeId \in w2.state.nodeById THEN showDetails(w2, nodeId) ELSE w2
    IN IF hasTerm /\ Len(matches) > 0 THEN setStatus(w3, "match-found", "success")
       ELSE IF hasTerm THEN setStatus(highlightNode(w1, Null, FALSE), "no-match", "warn")
       ELSE setStatus(highlightNode(w1, Null, FALSE), "enter-keyword", "info")

\* A stepSearch that does not wrap around: the index leaves the match list.
StepIndexUnwrapped(searchIndex, offset, total) == searchIndex + offset

\* A step that sticks at the ends of the match list.
StepIndexClamped(searchIndex, offset, total) ==
  IF searchIndex + offset >= total THEN total - 1
  ELSE IF searchIndex + offset < 0 THEN 0
  ELSE searchIndex + offset

\* A step that goes forward whatever the direction asked for.
StepIndexForward(searchIndex, offset, total) == (searchIndex + 1) % total

\* `(state.searchIndex + offset + total) % total`
StepIndex(searchIndex, offset, total) == (searchIndex + offset + total) % total

\* A step that, with nothing to step through, also forgets the term.
nothingToStepForgetful(w) ==
  setStatus([w EXCEPT !.state.searchTerm = ""], "enter-keyword-to-step", "info")

\* stepSearch when there is nothing to step through (lines 794-799).
nothingToStep(w) ==
  IF w.state.searchTerm # "" THEN setStatus(w, "no-match", "warn")
  ELSE setStatus(w, "enter-keyword-to-step", "info")

stepSearch(w, offset) ==
  IF w.state.nodeSelection = <<>> \/ Len(w.state.searchMatches) = 0
  THEN nothingToStep(w)
  ELSE
    LET total  == Len(w.state.searchMatches)
        idx0   == IF w.state.searchIndex < 0 THEN 0 ELSE w.state.searchIndex
        idx    == StepIndex(idx0, offset, total)
        nodeId == At(w.state.searchMatches, idx)
        w1     == highlightNode([w EXCEPT !.state.searchIndex = idx], nodeId, TRUE)
        w2     == IF nodeId \in w1.state.nodeById THEN showDetails(w1, nodeId) ELSE w1
    IN setStatus(w2, "viewing-match", "success")

handleSearchInput(w, value) ==
  LET w1 == [w EXCEPT !.state.searchTerm = Trim(value)]
  IN IF w1.state.nodeSelection = <<>>
     THEN LET w2 == updateSearchNavButtons([w1 EXCEPT !.state.searchMatches = <<>>,
                                                      !.state.searchIndex = -1])
          IN IF w2.state.searchTerm # "" THEN setStatus(w2, "load-graph-first", "warn")
             ELSE setStatus(w2, "enter-keyword", "info")
     ELSE applySearchTerm(w1, TRUE, TRUE)

resetView(w) ==
  LET w1 == [w EXCEPT !.state.searchTerm = "",
                      !.state.searchMatches = <<>>,
                      !.state.searchIndex = -1]
  IN setStatus(highlightNode(updateSearchNavButtons(w1), Null, FALSE), "view-reset", "info")

-----------------------------------------------------------------------------
(* Loading                                                                 *)

\* loadGraph(root) up to its `await fetch(url)`: the world, and the request.
loadGraphStart(w, root, id) ==
  LET w1 == setStatus(w, "loading-graph", "info")
      w2 == updateSearchNavButtons([w1 EXCEPT !.state.searchMatches = <<>>,
                                              !.state.searchIndex = -1])
  IN [w |-> w2,
      task |-> [kind |-> "graph", id |-> id, root |-> root,
                query |-> buildGraphDataUrl(w2.state, root),
                reconcile |-> FALSE, previousRoot |-> Null]]

\* A catch block that blanks the view instead of leaving it alone.
loadGraphCatchBlanking(w) ==
  setStatus([clearGraphView(w) EXCEPT !.state.currentRoot = Null,
                                      !.state.graphData = NoData,
                                      !.state.chainSummary = NoData],
            "graph-load-failed", "error")

\* A load that leaves the matches of the previous snapshot in place.
reapplySearchSkipped(w) == updateSearchNavButtons(w)

\* The end of a successful loadGraph (lines 410-414): the term is applied to
\* the new snapshot.
reapplySearch(w) ==
  IF w.state.searchTerm # "" THEN applySearchTerm(w, TRUE, FALSE)
  ELSE updateSearchNavButtons(w)

\* A catch block that reports nothing.
loadGraphCatchSilent(w) == w

\* The catch block of loadGraph (lines 415-418).
loadGraphCatch(w) == setStatus(w, "graph-load-failed", "error")

\* loadGraph from the response on (lines 379-418).
loadGraphResolved(w, t, resp) ==
  LET failed(x) == loadGraphCatch(x)
      data == resp.data
      w1 == [w EXCEPT
               !.state.graphData = data,
               !.state.currentRoot = IF Truthy(t.root) THEN t.root ELSE Null,
               !.state.chainSummary = IF "chainSummary" \in data.fields
                                      THEN data.chainSummary ELSE NoData]
      w2 == IF "thirdPartyPackages" \in data.fields
            THEN renderThirdPartyPackageOptions(
                   [w1 EXCEPT !.state.availableThirdPartyPackages = data.thirdPartyPackages])
            ELSE w1
      built == buildGraph(w2, data)
      \* updateStats reads data.edges.length
      w3 == setStatus(renderUnusedChains(built.w), "graph-loaded", "success")
  IN IF ~resp.ok THEN failed(w)
     ELSE IF built.threw THEN failed(built.w)
     ELSE IF "edges" \notin data.fields THEN failed(built.w)
     ELSE reapplySearch(w3)

\* loadRoots(options) up to its `await fetch(...)`.
loadRootsStart(w, preserveSelection, id) ==
  [w |-> setStatus(w, "loading-roots", "info"),
   task |-> [kind |-> "roots", id |-> id, query |-> RootsUrl(w.state),
             preserveSelection |-> preserveSelection,
             previousValue |-> IF preserveSelection THEN w.dom.rootValue ELSE ""]]

\* loadRoots from the response on (lines 198-247): the world and its result.
loadRootsResolved(w, t, resp) ==
  LET data == resp.data
      w1 == [w EXCEPT
               !.state.roots = FieldOrEmpty(data, "roots"),
               !.state.unusedChains = FieldOrEmpty(data, "unusedChains"),
               !.state.availableThirdPartyPackages = FieldOrEmpty(data, "thirdPartyPackages")]
      w2 == populateRootSelect(renderThirdPartyPackageOptions(w1), w1.state.roots)
      w3 == IF t.preserveSelection /\ t.previousValue # ""
               /\ t.previousValue \in Range(w2.state.roots)
            THEN SetRootValue(w2, t.previousValue) ELSE w2
      w4 == updateSearchNavButtons(renderUnusedChains(w3))
      f1 == [setStatus(w, "roots-load-failed", "error") EXCEPT
               !.state.roots = <<>>,
               !.state.unusedChains = <<>>,
               !.state.availableThirdPartyPackages = <<>>]
  IN IF resp.ok
     THEN [w |-> IF Len(w4.state.roots) > 0 THEN setStatus(w4, "choose-root", "info")
                 ELSE setStatus(w4, "no-roots-found", "warn"),
           loaded |-> TRUE]
     ELSE [w |-> updateSearchNavButtons(renderThirdPartyPackageOptions(f1)),
           loaded |-> FALSE]

\* reloadDataAfterFilterChange(options) up to the fetch of its loadRoots call.
reloadStart(w, messageWhenCleared, statusLevel, id) ==
  LET previousRoot == w.state.currentRoot
      hadFullGraph == ~Truthy(previousRoot) /\ w.state.graphData # NoData
      lr == loadRootsStart(w, TRUE, id)
  IN [w |-> lr.w,
      task |-> lr.task @@ [reconcile |-> TRUE,
                           previousRoot |-> previousRoot,
                           hadFullGraph |-> hadFullGraph,
                           messageWhenCleared |-> messageWhenCleared,
                           statusLevel |-> statusLevel]]

\* The view-clearing branch of reloadDataAfterFilterChange (lines 354-366).
clearAfterFilterChange(w, t) ==
  LET w1 == SetRootValue([w EXCEPT !.state.currentRoot = Null,
                                   !.state.graphData = NoData], "")
      w2 == [clearGraphView(w1) EXCEPT !.state.chainSummary = NoData]
  IN setStatus(renderUnusedChains(w2), t.messageWhenCleared, t.statusLevel)

\* A reconciliation that clears the view even when the root is still listed.
ReloadDecisionEjecting(loaded, previousRoot, hadFullGraph, roots) ==
  IF ~loaded THEN "abort"
  ELSE IF ~Truthy(previousRoot) /\ hadFullGraph THEN "reload-all"
  ELSE "clear"

\* A reconciliation that reloads the previous root without looking it up.
ReloadDecisionUnchecked(loaded, previousRoot, hadFullGraph, roots) ==
  IF ~loaded THEN "abort"
  ELSE IF Truthy(previousRoot) THEN "reload-root"
  ELSE IF ~Truthy(previousRoot) /\ hadFullGraph THEN "reload-all"
  ELSE "clear"

\* A reconciliation that forgets the all-nodes view.
ReloadDecisionRootOnly(loaded, previousRoot, hadFullGraph, roots) ==
  IF ~loaded THEN "abort"
  ELSE IF Truthy(previousRoot) /\ previousRoot \in Range(roots) THEN "reload-root"
  ELSE "clear"

\* A reconciliation that goes on after loadRoots has returned false.
ReloadDecisionHeedless(loaded, previousRoot, hadFullGraph, roots) ==
  IF Truthy(previousRoot) /\ previousRoot \in Range(roots) THEN "reload-root"
  ELSE IF ~Truthy(previousRoot) /\ hadFullGraph THEN "reload-all"
  ELSE "clear"

\* The decision of reloadDataAfterFilterChange once loadRoots has returned
\* (lines 336-352): give up, reload the previous root, reload all nodes, or clear.
ReloadDecision(loaded, previousRoot, hadFullGraph, roots) ==
  IF ~loaded THEN "abort"
  ELSE IF Truthy(previousRoot) /\ previousRoot \in Range(roots) THEN "reload-root"
  ELSE IF ~Truthy(previousRoot) /\ hadFullGraph THEN "reload-all"
  ELSE "clear"

\* The loadGraph request that a reloadDataAfterFilterChange awaits (lines 345, 350).
Awaited(task, t) == [task EXCEPT !.reconcile = TRUE, !.previousRoot = t.previousRoot]

\* reloadDataAfterFilterChange from the roots response on: the world and the
\* graph request it starts, if any.
reloadResolved(w, t, resp, id) ==
  LET lr == loadRootsResolved(w, t, resp)
      decision == ReloadDecision(lr.loaded, t.previousRoot, t.hadFullGraph,
                                 lr.w.state.roots)
      sameRoot == loadGraphStart(SetRootValue(lr.w, t.previousRoot), t.previousRoot, id)
      allNodes == loadGraphStart(lr.w, Null, id)
  IN IF decision = "abort" THEN [w |-> lr.w, tasks |-> {}]
     ELSE IF decision = "reload-root"
       THEN [w |-> sameRoot.w, tasks |-> {Awaited(sameRoot.task, t)}]
     ELSE IF decision = "reload-all"
       THEN [w |-> allNodes.w, tasks |-> {Awaited(allNodes.task, t)}]
     ELSE [w |-> clearAfterFilterChange(lr.w, t), tasks |-> {}]

-----------------------------------------------------------------------------
(* State                                                                   *)

VARIABLES
  state,    \* the `state` object (lines 1-22)
  dom,      \* the page: what handlers read back from it, what the user can act on
  pending,  \* the provider requests in flight, each with what its resumption needs
  nextId,   \* the number of the next request (requests are numbered as issued)
  asked,    \* how many times the user has asked for data
  ev        \* the handler that ran last: its name, request, response, new requests

vars == <<state, dom, pending, nextId, asked, ev>>

\* The requests of one kind that are in flight.
Awaiting(kind) == {t \in pending : t.kind = kind}

NoTask == [kind |-> "none", id |-> 0]
NoResp == [ok |-> FALSE, none |-> TRUE]

Event(op, t, resp, started) == [op |-> op, task |-> t, resp |-> resp, started |-> started]

\* What the text box can be set to.
SearchInputs == {"", " ", " B ", "ab"}

\* The world a handler starts in: no pan has been requested yet.
World == [state |-> state, dom |-> [dom EXCEPT !.pan = Null]]

CanRequest == asked < MaxRequests

\* The user clicks and types only while fewer than MaxTimers timer tasks wait.
TimerRoom == dom.timers < MaxTimers

StartupRoots ==
  [kind |-> "roots", id |-> 1,
   query |-> [path |-> "/roots", excludeSpring |-> FALSE, excludeThirdParty |-> FALSE,
              thirdPartyPackages |-> <<>>],
   preserveSelection |-> FALSE, previousValue |-> "",
   reconcile |-> FALSE, previousRoot |-> Null, hadFullGraph |-> FALSE,
   messageWhenCleared |-> "", statusLevel |-> ""]

\* After DOMContentLoaded: setupUI() has run and loadRoots() waits for its response.
Init ==
  /\ state = [roots |-> <<>>, currentRoot |-> Null, graphData |-> NoData,
              svg |-> FALSE, zoom |-> FALSE, simulation |-> 0,
              nodeSelection |-> <<>>, nodeById |-> {}, highlightedNode |-> Null,
              unusedChains |-> <<>>, chainSummary |-> NoData,
              excludeSpring |-> FALSE, excludeThirdParty |-> FALSE,
              availableThirdPartyPackages |-> <<>>, selectedThirdPartyPackages |-> <<>>,
              searchTerm |-> "", searchMatches |-> <<>>, searchIndex |-> -1]
  /\ \E disabled \in BOOLEAN :
       dom = [rootOptions |-> <<>>, rootValue |-> "", unusedList |-> <<>>,
              status |-> [message |-> "loading-roots", level |-> "info"],
              navDisabled |-> disabled, nodes |-> <<>>, highlighted |-> {},
              details |-> Null, links |-> {}, running |-> {}, pan |-> Null,
              listeners |-> 0, timers |-> 0,
              pinned |-> {}, dragging |-> NoDrag]
  /\ pending = {StartupRoots}
  /\ nextId = 2
  /\ asked = 0
  /\ ev = Event("DOMContentLoaded", NoTask, NoResp, {StartupRoots})

\* A handler ends: the world it leaves, the requests it started.
Done(w, op, t, resp, started) ==
  /\ state' = w.state
  /\ dom' = w.dom
  /\ pending' = (pending \ {t}) \cup started
  /\ nextId' = nextId + Cardinality(started)
  /\ asked' = IF t = NoTask THEN asked + Cardinality(started) ELSE asked
  /\ ev' = Event(op, t, resp, started)

-----------------------------------------------------------------------------
(* Actions: the user                                                       *)

\* The user picks an option of the root selector (no handler listens).
SelectRoot(r) ==
  /\ r \in Range(dom.rootOptions)
  /\ r # dom.rootValue
  /\ dom' = [dom EXCEPT !.rootValue = r]
  /\ UNCHANGED <<state, pending, nextId, asked, ev>>

\* A click on #load-root that loads whatever the selector holds.
ClickLoadRootUnchecked ==
  LET lg == loadGraphStart(World, dom.rootValue, nextId)
  IN /\ CanRequest
     /\ Done(lg.w, "ClickLoadRoot", NoTask, NoResp, {lg.task})

\* click on #load-root (lines 107-115)
ClickLoadRoot ==
  LET root == dom.rootValue
      lg == loadGraphStart(World, root, nextId)
  IN \/ /\ ~Truthy(root)
        /\ Done(setStatus(World, "select-a-root", "warn"), "ClickLoadRoot", NoTask, NoResp, {})
     \/ /\ Truthy(root)
        /\ CanRequest
        /\ Done(lg.w, "ClickLoadRoot", NoTask, NoResp, {lg.task})

\* click on #load-all (lines 117-119)
ClickLoadAll ==
  LET lg == loadGraphStart(World, Null, nextId)
  IN /\ CanRequest
     /\ Done(lg.w, "ClickLoadAll", NoTask, NoResp, {lg.task})

\* click on a root of the unused-chains list (lines 652-658)
ClickUnusedChain(r) ==
  LET lg == loadGraphStart(SetRootValue(World, r), r, nextId)
  IN /\ r \in Range(dom.unusedList)
     /\ CanRequest
     /\ Done(lg.w, "ClickUnusedChain", NoTask, NoResp, {lg.task})

\* change of #exclude-spring (lines 133-141)
ToggleExcludeSpring ==
  LET checked == ~state.excludeSpring
      w1 == [World EXCEPT !.state.excludeSpring = checked]
      rl == reloadStart(w1,
                        IF checked THEN "root-is-spring-filtered" ELSE "spring-included-again",
                        IF checked THEN "warn" ELSE "info", nextId)
  IN /\ CanRequest
     /\ Done(rl.w, "ToggleExcludeSpring", NoTask, NoResp, {rl.task})

\* change of #third-party-packages (lines 147-157); the select is enabled only
\* while packages are known (lines 303-308).
ChangeThirdPartyPackages(selected) ==
  LET w1 == [World EXCEPT !.state.selectedThirdPartyPackages = selected]
      rl == reloadStart(w1, "root-is-third-party-filtered", "warn", nextId)
  IN /\ Len(state.availableThirdPartyPackages) > 0
     /\ selected \in SubSeqs(getAllThirdPartyPackageIds(state))
     /\ selected # state.selectedThirdPartyPackages
     /\ IF ~state.excludeThirdParty
        THEN Done(w1, "ChangeThirdPartyPackages", NoTask, NoResp, {})
        ELSE /\ CanRequest
             /\ Done(rl.w, "ChangeThirdPartyPackages", NoTask, NoResp, {rl.task})

\* change of #exclude-third-party (lines 162-174)
ToggleExcludeThirdParty ==
  LET checked == ~state.excludeThirdParty
      w1 == [World EXCEPT !.state.excludeThirdParty = checked]
      w2 == IF checked /\ Len(w1.state.selectedThirdPartyPackages) = 0
            THEN [w1 EXCEPT !.state.selectedThirdPartyPackages =
                              getAllThirdPartyPackageIds(w1.state)]
            ELSE w1
      rl == reloadStart(renderThirdPartyPackageOptions(w2),
                        IF checked THEN "root-is-third-party-filtered"
                        ELSE "third-party-included-again",
                        IF checked THEN "warn" ELSE "info", nextId)
  IN /\ CanRequest
     /\ Done(rl.w, "ToggleExcludeThirdParty", NoTask, NoResp, {rl.task})

\* input on #search-input (line 121)
SearchInput(value) ==
  /\ TimerRoom
  /\ Done(handleSearchInput(World, value), "SearchInput", NoTask, NoResp, {})

\* click on #search-prev / #search-next (lines 122-129); a disabled button
\* does not click.
StepSearch(offset) ==
  /\ ~dom.navDisabled
  /\ TimerRoom
  /\ Done(stepSearch(World, offset), "StepSearch", NoTask, NoResp, {})

\* click on #reset-view (line 177)
ResetView == Done(resetView(World), "ResetView", NoTask, NoResp, {})

\* click on a node of the graph (lines 555-558)
ClickNode(id) ==
  /\ id \in Range(dom.nodes)
  /\ TimerRoom
  /\ Done(showDetails(highlightNode(World, id, FALSE), id), "ClickNode", NoTask, NoResp, {})

\* The pointer goes down on a displayed node and moves (lines 519-523).
DragStart(id) ==
  /\ id \in Range(dom.nodes)
  /\ dom.dragging = NoDrag
  /\ Done(dragStart(World, id), "DragStart", NoTask, NoResp, {})

\* The pointer moves on (lines 524-527).
DragMove ==
  /\ dom.dragging # NoDrag
  /\ Done(dragMove(World), "DragMove", NoTask, NoResp, {})

\* The pointer goes up (lines 528-532).
DragEnd ==
  /\ dom.dragging # NoDrag
  /\ Done(dragEnd(World), "DragEnd", NoTask, NoResp, {})

\* A timer task of renderRelationList runs (lines 912-925).
RelationTimer ==
  /\ dom.timers > 0
  /\ Done(relationTimer(World), "RelationTimer", NoTask, NoResp, {})

\* click on a relation button of the detail panel (lines 915-923); a button
\* without a listener does nothing.
ClickRelation(target) ==
  /\ target \in Armed(dom)
  /\ TimerRoom
  /\ Done(clickButton(World, target, dom.listeners), "ClickRelation", NoTask, NoResp, {})

-----------------------------------------------------------------------------
(* Actions: the provider answers                                           *)

\* The response to a roots listing arrives: loadRoots resumes, and with it the
\* reloadDataAfterFilterChange that awaits it.
RootsResponse(t, resp) ==
  LET lr == loadRootsResolved(World, t, resp)
      rl == reloadResolved(World, t, resp, nextId)
  IN /\ t \in Awaiting("roots")
     /\ \/ /\ ~t.reconcile
           /\ Done(lr.w, "RootsResponse", t, resp, {})
        \/ /\ t.reconcile
           /\ Done(rl.w, "RootsResponse", t, resp, rl.tasks)

\* The response to a graph-data request arrives: loadGraph resumes.
GraphResponse(t, resp) ==
  /\ t \in Awaiting("graph")
  /\ Done(loadGraphResolved(World, t, resp), "GraphResponse", t, resp, {})

SelectsRoot == \E r \in RootIds : SelectRoot(r)

ClicksUnusedChain == \E r \in RootIds : ClickUnusedChain(r)

ChangesThirdPartyPackages ==
  \E selected \in SubSeqs(getAllThirdPartyPackageIds(state)) :
    ChangeThirdPartyPackages(selected)

TypesSearch == \E value \in SearchInputs : SearchInput(value)

StepsSearch == \E offset \in {-1, 1} : StepSearch(offset)

ClicksNode == \E id \in Range(dom.nodes) : ClickNode(id)

ClicksRelation == \E target \in Armed(dom) : ClickRelation(target)

DragStarts == \E id \in Range(dom.nodes) : DragStart(id)

RootsArrive ==
  \E t \in Awaiting("roots") : \E resp \in RootsResponses : RootsResponse(t, resp)

GraphArrives ==
  \E t \in Awaiting("graph") : \E resp \in GraphResponses(t) : GraphResponse(t, resp)

\* Every event of the page.
Next ==
  \/ SelectsRoot
  \/ ClickLoadRoot
  \/ ClickLoadAll
  \/ ClicksUnusedChain
  \/ ToggleExcludeSpring
  \/ ChangesThirdPartyPackages
  \/ ToggleExcludeThirdParty
  \/ TypesSearch
  \/ StepsSearch
  \/ ResetView
  \/ ClicksNode
  \/ RelationTimer
  \/ ClicksRelation
  \/ DragStarts
  \/ DragMove
  \/ DragEnd
  \/ RootsArrive
  \/ GraphArrives

Spec == Init /\ [][Next]_vars

\* A user who only loads graphs.
NextLoad ==
  \/ SelectsRoot
  \/ ClickLoadRoot
  \/ ClickLoadAll
  \/ ClicksUnusedChain
  \/ RootsArrive
  \/ GraphArrives

SpecLoad == Init /\ [][NextLoad]_vars

\* A user who loads graphs and changes the filters (the package sub-selection
\* only while third-party beans are excluded).
NextReload ==
  \/ SelectsRoot
  \/ ClickLoadRoot
  \/ ClickLoadAll
  \/ ToggleExcludeSpring
  \/ ToggleExcludeThirdParty
  \/ (state.excludeThirdParty /\ ChangesThirdPartyPackages)
  \/ RootsArrive
  \/ GraphArrives

SpecReload == Init /\ [][NextReload]_vars

\* A user who loads all nodes, excludes Spring beans and searches, typing
\* and stepping only when no timer task of the detail panel waits.
NextSearch ==
  \/ ClickLoadAll
  \/ ToggleExcludeSpring
  \/ (dom.timers = 0 /\ TypesSearch)
  \/ (dom.timers = 0 /\ StepsSearch)
  \/ ResetView
  \/ RelationTimer
  \/ RootsArrive
  \/ GraphArrives

SpecSearch == Init /\ [][NextSearch]_vars

\* A user who changes the filters without ever choosing packages.
NextDefaults ==
  \/ ClickLoadAll
  \/ ToggleExcludeSpring
  \/ ToggleExcludeThirdParty
  \/ RootsArrive
  \/ GraphArrives

SpecDefaults == Init /\ [][NextDefaults]_vars

\* The same user, and a provider that answers every request in the end.
SpecDefaultsFair ==
  SpecDefaults /\ WF_vars(RootsArrive) /\ WF_vars(GraphArrives)

\* A user who loads all nodes and drags them about.
NextDrag ==
  \/ ClickLoadAll
  \/ DragStarts
  \/ DragMove
  \/ DragEnd
  \/ RootsArrive
  \/ GraphArrives

SpecDrag == Init /\ [][NextDrag]_vars

\* A user who loads all nodes, excludes Spring beans and drags nodes about.
NextDragReload ==
  \/ ClickLoadAll
  \/ ToggleExcludeSpring
  \/ DragStarts
  \/ DragMove
  \/ DragEnd
  \/ RootsArrive
  \/ GraphArrives

SpecDragReload == Init /\ [][NextDragReload]_vars

\* A user who loads all nodes, searches, clicks nodes and follows the
\* relations of the detail panel.
NextNavigate ==
  \/ ClickLoadAll
  \/ TypesSearch
  \/ StepsSearch
  \/ ResetView
  \/ ClicksNode
  \/ RelationTimer
  \/ ClicksRelation
  \/ RootsArrive
  \/ GraphArrives

SpecNavigate == Init /\ [][NextNavigate]_vars

-----------------------------------------------------------------------------
(* What the claims speak of                                                *)

\* The displayed view: the root, the snapshot, its summary, the node set.
SnapshotView(s) ==
  [currentRoot |-> s.currentRoot, graphData |-> s.graphData,
   chainSummary |-> s.chainSummary, nodeById |-> s.nodeById]

BlankView ==
  [currentRoot |-> Null, graphData |-> NoData, chainSummary |-> NoData, nodeById |-> {}]

\* A graph-data body with both arrays.
WellFormed(data) == {"nodes", "edges"} \subseteq data.fields

\* This step is the resumption of a request: `ev` names the request, which was
\* in flight before the step.
Resumes(op) == ev'.op = op /\ ev'.task \in pending

\* This step is a handler that issues a request of the kind.
Starts(kind) == \E g \in ev'.started : g.kind = kind /\ g \notin pending

\* What is on screen of the view: the view and the drawn nodes.
Displayed == [view |-> SnapshotView(state), nodes |-> dom.nodes]

-----------------------------------------------------------------------------
(* C1 - C10                                                                *)

\* C1: of two graph loads in flight together that both resolve successfully,
\* the later-initiated one ends up displayed: the response of the earlier
\* load, arriving second, leaves currentRoot and the snapshot of the later
\* load in place.
C1_LaterInitiatedLoadWins ==
  [][ ( /\ Resumes("GraphResponse")
        /\ ev'.resp.ok /\ WellFormed(ev'.resp.data)
        /\ state.graphData # NoData /\ WellFormed(state.graphData)
        /\ state.graphData.req > ev'.task.id )
      => SnapshotView(state') = SnapshotView(state) ]_vars

\* The roots listing of a filter change has come back with a `roots` array.
ListedFor(e) ==
  /\ e.op = "RootsResponse" /\ e.task.reconcile
  /\ e.resp.ok /\ "roots" \in e.resp.data.fields

\* C2: a filter change made while previousRoot is displayed, whose roots
\* listing succeeds and still lists previousRoot, starts a graph load for
\* previousRoot without clearing the view; when that load's response is
\* applied currentRoot is previousRoot (and a failed response leaves
\* currentRoot alone).
C2_SurvivingRootIsReloaded ==
  [][ /\ ( /\ Resumes("RootsResponse") /\ ListedFor(ev')
           /\ Truthy(ev'.task.previousRoot)
           /\ ev'.task.previousRoot \in Range(ev'.resp.data.roots) )
         => /\ \E g \in ev'.started :
                 /\ ev'.started = {g} /\ g \in pending'
                 /\ g.kind = "graph" /\ g.root = ev'.task.previousRoot
            /\ SnapshotView(state') = SnapshotView(state)
      /\ ( /\ Resumes("GraphResponse") /\ ev'.task.reconcile
           /\ Truthy(ev'.task.previousRoot) )
         => state'.currentRoot = IF ev'.resp.ok THEN ev'.task.previousRoot
                                 ELSE state.currentRoot ]_vars

\* C2 happens: the reload that a filter change started for the surviving
\* root has been applied.
C2_Witness ==
  /\ ev.op = "GraphResponse" /\ ev.task.reconcile /\ ev.resp.ok
  /\ WellFormed(ev.resp.data)
  /\ Truthy(ev.task.previousRoot)
  /\ state.currentRoot = ev.task.previousRoot
  /\ state.nodeById # {}

\* C3: a filter change made while previousRoot is displayed, whose roots
\* listing succeeds and no longer lists previousRoot, ends with currentRoot,
\* graphData and chainSummary null, no node displayed and no graph load
\* started.
C3_FilteredOutRootIsCleared ==
  ( /\ ListedFor(ev)
    /\ Truthy(ev.task.previousRoot)
    /\ ev.task.previousRoot \notin Range(ev.resp.data.roots) )
  => /\ SnapshotView(state) = BlankView
     /\ ev.started = {}
     /\ dom.nodes = <<>>

\* C3 happens: the listing that came back for a filter change lacks the root
\* that was displayed.
C3_Witness ==
  /\ ListedFor(ev)
  /\ ev.task.previousRoot = "A"
  /\ ev.resp.data.roots = <<"B">>
  /\ state.currentRoot = Null

\* C4: a filter change made while the all-nodes view is displayed, whose
\* roots listing succeeds, starts a graph load for 'all' built from the
\* filters as they now are and does not clear the view; when that load
\* succeeds currentRoot is still null and the snapshot is its response.
C4_AllNodesViewIsReloaded ==
  [][ /\ ( /\ Resumes("RootsResponse") /\ ev'.task.reconcile /\ ev'.resp.ok
           /\ ~Truthy(ev'.task.previousRoot) /\ ev'.task.hadFullGraph )
         => /\ \E g \in ev'.started :
                 /\ ev'.started = {g} /\ g \in pending'
                 /\ g.kind = "graph" /\ g.root = Null
                 /\ g.query = [path |-> "/graph-data", root |-> "all",
                               excludeSpring |-> state'.excludeSpring,
                               excludeThirdParty |-> state'.excludeThirdParty,
                               thirdPartyPackages |->
                                 IF state'.excludeThirdParty
                                 THEN state'.selectedThirdPartyPackages ELSE <<>>]
            /\ SnapshotView(state') = SnapshotView(state)
      /\ ( /\ Resumes("GraphResponse") /\ ev'.task.reconcile
           /\ ~Truthy(ev'.task.previousRoot)
           /\ ev'.resp.ok /\ WellFormed(ev'.resp.data) )
         => /\ state'.currentRoot = Null
            /\ state'.graphData = ev'.resp.data
            /\ state'.graphData.query = ev'.task.query
            /\ state'.nodeById = Range(ev'.resp.data.nodes) ]_vars

\* C4 happens: the all-nodes view has been reloaded under a changed filter.
C4_Witness ==
  /\ ev.op = "GraphResponse" /\ ev.task.reconcile /\ ev.resp.ok
  /\ WellFormed(ev.resp.data)
  /\ ~Truthy(ev.task.previousRoot)
  /\ state.currentRoot = Null
  /\ state.graphData.query.root = "all"
  /\ state.graphData.query.excludeSpring
  /\ state.nodeById # {}

\* C5: when the roots listing of a filter change fails, no graph load is
\* started and currentRoot, graphData, chainSummary and the node set stay
\* as they were: neither the toggle, which issues the listing, nor its
\* failure touches them.
C5_FailedListingAbortsReload ==
  [][ /\ Starts("roots") => Displayed' = Displayed
      /\ (Resumes("RootsResponse") /\ ev'.task.reconcile /\ ~ev'.resp.ok)
         => /\ Displayed' = Displayed
            /\ ev'.started = {}
            /\ Awaiting("graph")' = Awaiting("graph") ]_vars

\* C5 happens: the listing of a filter change has failed while a snapshot
\* with nodes was displayed.
C5_Witness ==
  /\ ev.op = "RootsResponse" /\ ev.task.reconcile /\ ~ev.resp.ok
  /\ state.graphData # NoData /\ state.nodeById # {}
  /\ Truthy(state.currentRoot)

\* The lists that a roots listing refreshes, and the package selection.
ListState(s) ==
  [roots |-> s.roots, unusedChains |-> s.unusedChains,
   availableThirdPartyPackages |-> s.availableThirdPartyPackages,
   selectedThirdPartyPackages |-> s.selectedThirdPartyPackages]

\* C6: a roots listing that fails leaves the root list, the unused-chain
\* list, the known packages and the selected packages as they were.
C6_FailedListingKeepsLists ==
  [][ (Resumes("RootsResponse") /\ ~ev'.resp.ok)
      => ListState(state') = ListState(state) ]_vars

\* C7: a roots listing with a success status but no `roots` field counts as
\* a failure: the filter change is given up and the view is left alone.
C7_ListingWithoutRootsIsFailure ==
  [][ ( /\ Resumes("RootsResponse") /\ ev'.task.reconcile
        /\ ev'.resp.ok /\ "roots" \notin ev'.resp.data.fields )
      => /\ SnapshotView(state') = SnapshotView(state)
         /\ ev'.started = {} ]_vars

\* C8: a graph-data request that fails (network error, non-2xx) leaves
\* currentRoot, graphData, chainSummary and the node set as they were when
\* the load was initiated (initiating it does not touch them either) and
\* sets an error status.
C8_FailedLoadKeepsView ==
  [][ /\ Starts("graph") => Displayed' = Displayed
      /\ (Resumes("GraphResponse") /\ ~ev'.resp.ok)
         => /\ Displayed' = Displayed
            /\ dom'.status.level = "error" ]_vars

\* C8 happens: a load has failed while a snapshot with nodes was displayed.
C8_Witness ==
  /\ ev.op = "GraphResponse" /\ ~ev.resp.ok
  /\ state.graphData # NoData /\ state.nodeById # {}
  /\ dom.status = [message |-> "graph-load-failed", level |-> "error"]

\* C9: a graph-data body without `nodes` or `edges` is not applied in part:
\* afterwards the view is the previous one, whole, or blank, whole.
C9_NoPartialSnapshot ==
  [][ (Resumes("GraphResponse") /\ ev'.resp.ok /\ ~WellFormed(ev'.resp.data))
      => \/ SnapshotView(state') = SnapshotView(state)
         \/ SnapshotView(state') = BlankView ]_vars

\* C10: searchIndex is -1 exactly when searchMatches is empty, and otherwise
\* an index into searchMatches.
C10_SearchIndexValid ==
  /\ state.searchIndex = -1 <=> state.searchMatches = <<>>
  /\ state.searchMatches # <<>>
       => 0 <= state.searchIndex /\ state.searchIndex < Len(state.searchMatches)

\* C10 happens: a step has moved the index to the last of several matches.
C10_Witness ==
  /\ ev.op = "StepSearch"
  /\ Len(state.searchMatches) >= 2
  /\ state.searchIndex = Len(state.searchMatches) - 1

-----------------------------------------------------------------------------
(* C11 - C20                                                               *)

\* The displayed node ids that contain the term, whatever the case of the
\* letters, in the order they are displayed.
Containing(nodes, term) ==
  SelectSeq(nodes, LAMBDA id :
    \E i \in 1..Len(Chars(id)) : \E j \in i..Len(Chars(id)) :
      ToLowerCase(SubSeq(Chars(id), i, j)) = ToLowerCase(Chars(term)))

\* The index after a recomputation: the first match, or none.
FirstOrNone(matches) == IF matches # <<>> THEN 0 ELSE -1

\* C11: a search-term edit (to a term that is not blank) while a non-empty
\* snapshot is displayed leaves searchMatches the displayed ids that contain
\* the trimmed term case-insensitively, in node order, searchIndex 0 if there
\* are any and -1 otherwise, and the first match highlighted.
C11_EditRecomputesMatches ==
  [][ \A value \in SearchInputs :
        (dom.nodes # <<>> /\ Trim(value) # "" /\ ev'.op = "SearchInput"
           /\ SearchInput(value))
        => LET expected == Containing(dom.nodes, Trim(value))
           IN /\ state'.searchMatches = expected
              /\ state'.searchIndex = FirstOrNone(expected)
              /\ expected # <<>> => /\ state'.highlightedNode = expected[1]
                                    /\ dom'.highlighted = {expected[1]} ]_vars

\* C11 happens: " B " typed over the nodes B, Ab, A, ab gives B, Ab, ab.
C11_Witness ==
  /\ ev.op = "SearchInput"
  /\ dom.nodes = <<"B", "Ab", "A", "ab">>
  /\ state.searchTerm = "B"
  /\ state.searchMatches = <<"B", "Ab", "ab">>
  /\ state.searchIndex = 0
  /\ state.highlightedNode = "B"

\* C12: setting the term to the empty string, or to blanks, leaves
\* searchMatches empty and searchIndex -1, whatever the state before.
C12_BlankTermClearsMatches ==
  [][ \A value \in SearchInputs :
        (value \in {"", " "} /\ ev'.op = "SearchInput" /\ SearchInput(value))
        => /\ state'.searchMatches = <<>>
           /\ state'.searchIndex = -1 ]_vars

\* C12 happens: the term has been blanked over a displayed snapshot while a
\* load is in flight.
C12_Witness ==
  /\ ev.op = "SearchInput"
  /\ state.searchTerm = ""
  /\ dom.nodes # <<>>
  /\ Awaiting("graph") # {}
  /\ state.searchMatches = <<>>

\* C13: setting the term to the empty string leaves no node highlighted:
\* highlightedNode is null afterwards, whatever the state before.
C13_BlankTermClearsHighlight ==
  [][ \A value \in SearchInputs :
        (value \in {"", " "} /\ ev'.op = "SearchInput" /\ SearchInput(value))
        => state'.highlightedNode = Null ]_vars

RECURSIVE StepTimes(_, _, _)
\* stepSearch(offset) applied k times with nothing in between.
StepTimes(w, offset, k) ==
  IF k = 0 THEN w ELSE StepTimes(stepSearch(w, offset), offset, k - 1)

\* C14: with n >= 1 matches, n steps forward, and n steps backward, bring
\* searchIndex back to where it was.
C14_CyclicClosure ==
  \A offset \in {-1, 1} :
    (state.nodeSelection # <<>> /\ Len(state.searchMatches) >= 1)
    => StepTimes(World, offset, Len(state.searchMatches)).state.searchIndex
         = state.searchIndex

\* C14 happens: three matches, and steps have moved the index away from the
\* first one.
C14_Witness ==
  /\ ev.op = "StepSearch"
  /\ Len(state.searchMatches) = 3
  /\ state.searchIndex = 1
  /\ StepTimes(World, 1, 2).state.searchIndex = 0

\* C15: with n >= 1 matches, a step by d sets searchIndex to
\* (searchIndex + d) mod n, leaves searchMatches alone, highlights
\* searchMatches[searchIndex] and asks to centre on it.
C15_StepAdvancesModulo ==
  [][ \A offset \in {-1, 1} :
        (StepSearch(offset) /\ state.nodeSelection # <<>>
                            /\ Len(state.searchMatches) >= 1)
        => LET n == Len(state.searchMatches)
               index == (state.searchIndex + offset) % n
           IN /\ state'.searchIndex = index
              /\ state'.searchMatches = state.searchMatches
              /\ state'.highlightedNode = state.searchMatches[index + 1]
              /\ dom'.pan = state.searchMatches[index + 1] ]_vars

\* C15 happens: a step has wrapped from the first of three matches to the last.
C15_Witness ==
  /\ ev.op = "StepSearch"
  /\ Len(state.searchMatches) = 3
  /\ state.searchIndex = 2
  /\ state.highlightedNode = state.searchMatches[3]
  /\ dom.pan = state.searchMatches[3]

\* C16: a step with no match, or with no snapshot, changes nothing of the
\* state and starts no request; it only reports a status.
C16_StepWithoutMatchesIsNoOp ==
  [][ \A offset \in {-1, 1} :
        (StepSearch(offset) /\ (state.nodeSelection = <<>> \/ state.searchMatches = <<>>))
        => /\ state' = state
           /\ pending' = pending
           /\ ev'.started = {}
           /\ \E status \in [message : {"no-match", "enter-keyword-to-step"},
                             level : {"warn", "info"}] :
                dom' = [dom EXCEPT !.status = status, !.pan = Null] ]_vars

\* C16 happens: a step was asked for with nothing to step through.
C16_Witness ==
  /\ ev.op = "StepSearch"
  /\ state.searchMatches = <<>>
  /\ dom.status.message \in {"no-match", "enter-keyword-to-step"}

\* C17: at most one displayed node is decorated as highlighted, and it is
\* the node highlightedNode names; highlighting null decorates no node and
\* asks for no panning.
C17_SingleHighlight ==
  /\ Cardinality(dom.highlighted) <= 1
  /\ \A id \in dom.highlighted : id = state.highlightedNode /\ id \in Range(dom.nodes)
  /\ \A center \in BOOLEAN :
       LET cleared == highlightNode(World, Null, center)
       IN cleared.dom.highlighted = {} /\ cleared.dom.pan = Null

\* C17 happens: a click has moved the highlight from the current match to
\* another node.
C17_Witness ==
  /\ ev.op = "ClickNode"
  /\ state.searchMatches # <<>>
  /\ dom.highlighted = {state.highlightedNode}
  /\ state.highlightedNode # At(state.searchMatches, state.searchIndex)

\* C18: when a successful load hands its snapshot to buildGraph,
\* searchMatches is empty and searchIndex is -1.
C18_MatchesResetBeforeRender ==
  [][ (Resumes("GraphResponse") /\ ev'.resp.ok /\ WellFormed(ev'.resp.data))
      => /\ state.searchMatches = <<>>
         /\ state.searchIndex = -1 ]_vars

\* C19: when a load succeeds while the term is not empty, searchMatches is
\* the new snapshot's ids that contain the term, in node order, and
\* searchIndex is 0 if there are any and -1 otherwise.
C19_TermReappliedAfterLoad ==
  [][ ( /\ Resumes("GraphResponse") /\ ev'.resp.ok /\ WellFormed(ev'.resp.data)
        /\ state.searchTerm # "" )
      => LET expected == Containing(ev'.resp.data.nodes, state.searchTerm)
         IN /\ state'.searchMatches = expected
            /\ state'.searchIndex = FirstOrNone(expected)
            /\ Range(state'.searchMatches) \subseteq state'.nodeById ]_vars

\* C19 happens: a load has replaced the snapshot under a term that matched
\* other nodes before.
C19_Witness ==
  /\ ev.op = "GraphResponse" /\ ev.resp.ok
  /\ state.searchTerm = "ab"
  /\ ev.resp.data.nodes = <<"B", "Ab", "A", "ab">>
  /\ state.searchMatches = <<"Ab", "ab">>
  /\ state.searchIndex = 0

\* C20: a click on a relation of the detail panel whose id is in the node
\* set highlights that id, asks to centre on it and shows its details; for
\* an id that is not in the node set the listener only reports a warning.
C20_RelationClick ==
  [][ /\ \A target \in Armed(dom) :
           (ClickRelation(target) /\ target \in state.nodeById)
           => /\ state'.highlightedNode = target
              /\ dom'.pan = target
              /\ dom'.details = target
              /\ state' = [state EXCEPT !.highlightedNode = target]
      /\ \A target \in {"A", "B", "Ab", "ab", "x"} \ state.nodeById :
           LET after == clickRelation(World, target)
           IN /\ after.state = state
              /\ after.dom = [World.dom EXCEPT !.status =
                                [message |-> "not-in-current-view", level |-> "warn"]]
    ]_vars

\* C20 happens: the panel of A was left for the panel of B through A's
\* relation list.
C20_Witness ==
  /\ ev.op = "ClickRelation"
  /\ state.highlightedNode = "B"
  /\ dom.details = "B"
  /\ dom.pan = "B"
  /\ dom.links = {"A"}

-----------------------------------------------------------------------------
(* C21 - C30                                                               *)

\* C21: turning excludeThirdParty on while nothing is selected and packages
\* are known selects all known packages before the roots request is built,
\* and that request carries them.
C21_DefaultSelectsAllPackages ==
  [][ ( /\ ToggleExcludeThirdParty
        /\ ~state.excludeThirdParty
        /\ state.selectedThirdPartyPackages = <<>>
        /\ state.availableThirdPartyPackages # <<>> )
      => /\ state'.selectedThirdPartyPackages = state.availableThirdPartyPackages
         /\ \E g \in ev'.started :
              /\ ev'.started = {g} /\ g.kind = "roots"
              /\ g.query.excludeThirdParty
              /\ g.query.thirdPartyPackages = state.availableThirdPartyPackages ]_vars

\* C21 happens: the filter was turned on over pkg1, pkg2 and the roots
\* request asks for both.
C21_Witness ==
  /\ ev.op = "ToggleExcludeThirdParty"
  /\ state.excludeThirdParty
  /\ state.availableThirdPartyPackages = <<"pkg1", "pkg2">>
  /\ state.selectedThirdPartyPackages = <<"pkg1", "pkg2">>
  /\ \E g \in ev.started : g.query.thirdPartyPackages = <<"pkg1", "pkg2">>

\* C23: the graph-data query has root = the id given, or 'all' for none;
\* excludeSpring and excludeThirdParty exactly when they are set; and the
\* package list exactly when excludeThirdParty is set and packages are
\* selected, which is then the selection in its order.
C23_GraphQuery ==
  /\ \A root \in RootIds \cup {Null, ""} :
       LET query == buildGraphDataUrl(state, root)
       IN /\ query.path = "/graph-data"
          /\ query.root = (IF root \in RootIds THEN root ELSE "all")
          /\ query.excludeSpring = state.excludeSpring
          /\ query.excludeThirdParty = state.excludeThirdParty
          /\ (query.thirdPartyPackages # <<>>)
               = (state.excludeThirdParty /\ state.selectedThirdPartyPackages # <<>>)
          /\ query.thirdPartyPackages # <<>>
               => query.thirdPartyPackages = state.selectedThirdPartyPackages
  /\ \A g \in ev.started :
       g.kind = "graph" => g.query = buildGraphDataUrl(state, g.root)

\* C23 happens: a load of a root was asked for with both filters on and a
\* package selected.
C23_Witness ==
  \E g \in ev.started :
    /\ g.kind = "graph" /\ g.query.root \in RootIds
    /\ g.query.excludeThirdParty
    /\ g.query.thirdPartyPackages # <<>>
    /\ state.excludeThirdParty

\* C24: a click on 'load root' with no root selected starts no request,
\* leaves the state as it is and sets a warning.
C24_EmptySelectionRejected ==
  [][ (ClickLoadRoot /\ dom.rootValue = "")
      => /\ state' = state
         /\ pending' = pending
         /\ ev'.started = {}
         /\ dom' = [dom EXCEPT !.status = [message |-> "select-a-root", level |-> "warn"],
                               !.pan = Null] ]_vars

\* C24 happens: the click was rejected while a snapshot was displayed.
C24_Witness ==
  /\ ev.op = "ClickLoadRoot" /\ ev.started = {}
  /\ dom.rootValue = ""
  /\ dom.status = [message |-> "select-a-root", level |-> "warn"]
  /\ state.graphData # NoData /\ state.nodeById # {}

\* The filter state.
FilterState(s) ==
  [excludeSpring |-> s.excludeSpring, excludeThirdParty |-> s.excludeThirdParty,
   selectedThirdPartyPackages |-> s.selectedThirdPartyPackages]

\* C22: while excludeThirdParty is on and the user has chosen no packages,
\* every package a roots listing or a graph load makes known is selected
\* once the response is processed.
C22_NewPackagesSelectedByDefault ==
  [][ ( /\ Resumes("RootsResponse") \/ Resumes("GraphResponse")
        /\ state'.excludeThirdParty )
      => Range(PackageIds(state'.availableThirdPartyPackages))
           \subseteq Range(state'.selectedThirdPartyPackages) ]_vars

\* C25: processing a provider response, of either kind, successful or not,
\* leaves excludeSpring, excludeThirdParty and selectedThirdPartyPackages
\* as they were.
C25_ResponsesKeepFilterState ==
  [][ (Resumes("RootsResponse") \/ Resumes("GraphResponse"))
      => FilterState(state') = FilterState(state) ]_vars

\* C26: with no request in flight, a displayed snapshot is the response to
\* the query that currentRoot and the filter state as they are now give.
C26_SnapshotMatchesFilters ==
  (pending = {} /\ state.graphData # NoData /\ WellFormed(state.graphData))
  => state.graphData.query =
       [path |-> "/graph-data",
        root |-> IF state.currentRoot = Null THEN "all" ELSE state.currentRoot,
        excludeSpring |-> state.excludeSpring,
        excludeThirdParty |-> state.excludeThirdParty,
        thirdPartyPackages |-> IF state.excludeThirdParty
                               THEN state.selectedThirdPartyPackages ELSE <<>>]

\* C27: a load that was in flight when a filter change cleared the view,
\* and then fails (network error, non-2xx, or a body without nodes or edges),
\* leaves the view cleared.
C27_FailedLoadKeepsViewCleared ==
  [][ ( /\ ListedFor(ev) /\ ev.started = {}
        /\ SnapshotView(state) = BlankView
        /\ Resumes("GraphResponse")
        /\ ~ev'.resp.ok \/ ~WellFormed(ev'.resp.data) )
      => /\ state'.currentRoot = Null
         /\ state'.graphData = NoData
         /\ state'.nodeById = {}
         /\ dom'.nodes = <<>> ]_vars

\* C28: once a snapshot has replaced another, or the view has been cleared,
\* no simulation runs but the one of the snapshot displayed, and none runs
\* for a snapshot without nodes or for a cleared view.
C28_OneSimulation ==
  [][ /\ (Resumes("GraphResponse") /\ ev'.resp.ok /\ WellFormed(ev'.resp.data))
         => dom'.running = IF ev'.resp.data.nodes = <<>> THEN {} ELSE {ev'.task.id}
      /\ (Resumes("RootsResponse") /\ ListedFor(ev') /\ ev'.started = {})
         => dom'.running = {} ]_vars

\* The displayed nodes that are pinned.
PinnedNodes(s, page) ==
  {d.id : d \in {p \in page.pinned : p.snap = s.simulation /\ p.id \in Range(page.nodes)}}

\* C29: a displayed node is pinned exactly while it is being dragged: the
\* start of a drag pins it, the end releases it, and right after a
\* successful load no node of the new snapshot is pinned.
C29_PinnedWhileDragged ==
  [][ /\ PinnedNodes(state, dom) =
           (IF dom.dragging # NoDrag /\ dom.dragging.snap = state.simulation
            THEN {dom.dragging.id} \cap Range(dom.nodes) ELSE {})
      /\ \A id \in Range(dom.nodes) :
           DragStart(id) => PinnedNodes(state', dom') = {id}
      /\ DragEnd => PinnedNodes(state', dom') = {}
      /\ (Resumes("GraphResponse") /\ ev'.resp.ok /\ WellFormed(ev'.resp.data))
         => PinnedNodes(state', dom') = {} ]_vars

\* C29 happens: a node was dragged and released, and none is pinned.
C29_Witness ==
  /\ ev.op = "DragEnd"
  /\ dom.nodes # <<>>
  /\ dom.pinned = {} /\ dom.dragging = NoDrag

\* C30: when a filter change clears the view with nothing loaded before, its
\* notice is not the one the same filter change shows when the root that was
\* displayed has been filtered out.
C30_ClearNoticeTellsCause ==
  [][ ( /\ Resumes("RootsResponse") /\ ListedFor(ev') /\ ev'.started = {}
        /\ ~Truthy(ev'.task.previousRoot) )
      => LET listed == loadRootsResolved(World, ev'.task, ev'.resp).w
             filteredOut == clearAfterFilterChange(
                              listed, [ev'.task EXCEPT !.previousRoot = "A"])
         IN dom'.status # filteredOut.dom.status ]_vars

-----------------------------------------------------------------------------
(* C31 - C39 *)

\* What a provider that answers a query the same way each time sends twice:
\* two bodies with the same fields, nodes, edges and packages.
SameAnswer(a, b) ==
  /\ a.fields = b.fields
  /\ a.nodes = b.nodes
  /\ a.edges = b.edges
  /\ a.thirdPartyPackages = b.thirdPartyPackages

\* C31: loading the root that is displayed once more, with the filter state
\* the displayed snapshot was asked with, builds the query of the first load;
\* and when the provider answers that query as it did before, the displayed
\* node ids and the edges are those of the first load.
C31_ReloadRoundTrip ==
  [][ /\ \A g \in ev'.started :
           ( /\ g \notin pending /\ g.kind = "graph" /\ ~g.reconcile
             /\ state.graphData # NoData /\ WellFormed(state.graphData)
             /\ (IF Truthy(g.root) THEN g.root ELSE Null) = state.currentRoot
             /\ FilterParams(state) =
                  [f \in DOMAIN FilterParams(state) |-> state.graphData.query[f]] )
           => g.query = state.graphData.query
      /\ ( /\ Resumes("GraphResponse") /\ ev'.resp.ok /\ WellFormed(ev'.resp.data)
            /\ state.graphData # NoData /\ WellFormed(state.graphData)
            /\ ev'.task.query = state.graphData.query
            /\ SameAnswer(ev'.resp.data, state.graphData) )
         => /\ Range(dom'.nodes) = Range(dom.nodes)
            /\ state'.nodeById = state.nodeById
            /\ Range(state'.graphData.edges) = Range(state.graphData.edges)
            /\ state'.currentRoot = state.currentRoot ]_vars

\* C31 happens: root B is displayed with its nodes, and a second load of B
\* with the same query is in flight.
C31_Witness ==
  /\ state.currentRoot = "B" /\ dom.nodes # <<>>
  /\ state.graphData # NoData /\ WellFormed(state.graphData)
  /\ \E t \in Awaiting("graph") :
       ~t.reconcile /\ t.root = "B" /\ t.query = state.graphData.query

\* C32: with no graph load in flight, searchMatches is the list of the
\* displayed node ids that contain searchTerm, case-insensitively, in the
\* order of display; it is empty when the term is empty or nothing is displayed.
C32_MatchesFollowDisplay ==
  Awaiting("graph") = {} => state.searchMatches = Containing(dom.nodes, state.searchTerm)

\* C33: highlightedNode is none or the id of a node of the displayed node
\* set (nodeById).
C33_HighlightIsDisplayed ==
  state.highlightedNode = Null \/ state.highlightedNode \in state.nodeById

\* C34: once a filter change has cleared the view, the successful response
\* to a graph load that was started before the clear leaves the view cleared.
C34_ClearedViewStaysCleared ==
  [][ ( /\ ListedFor(ev) /\ ev.started = {}
        /\ SnapshotView(state) = BlankView /\ dom.nodes = <<>>
        /\ Resumes("GraphResponse")
        /\ ev'.resp.ok /\ WellFormed(ev'.resp.data) )
      => /\ SnapshotView(state') = BlankView
         /\ dom'.nodes = <<>> ]_vars

\* C35: when the listings of two filter changes are in flight together and
\* the later one is answered first, the answer to the earlier one, arriving
\* after it, does not replace the roots, unused chains and packages that the
\* later listing returned.
C35_LaterListingWins ==
  [][ ( /\ ev.op = "RootsResponse" /\ ev.task.reconcile /\ ev.resp.ok
        /\ Resumes("RootsResponse") /\ ev'.task.reconcile
        /\ ev'.task.id < ev.task.id
        /\ ev'.task.query # ev.task.query )
      => /\ state'.roots = FieldOrEmpty(ev.resp.data, "roots")
         /\ state'.unusedChains = FieldOrEmpty(ev.resp.data, "unusedChains")
         /\ state'.availableThirdPartyPackages =
              FieldOrEmpty(ev.resp.data, "thirdPartyPackages") ]_vars

\* The filter parameters a request carries.
ParamsOf(query) == [f \in {"excludeSpring", "excludeThirdParty", "thirdPartyPackages"} |-> query[f]]

\* C36: when the roots listing of a filter change comes back while the
\* filters are as the listing carried them, the graph-data request that the
\* filter change then issues carries the filter parameters of the listing.
C36_SameParamsInReconciliation ==
  [][ ( /\ Resumes("RootsResponse") /\ ev'.task.reconcile
        /\ RootsUrl(state) = ev'.task.query )
      => \A g \in ev'.started : ParamsOf(g.query) = ParamsOf(ev'.task.query) ]_vars

\* C37: a drag 'start' or 'end' handler finds a simulation to act on:
\* state.simulation is not null when it runs.
C37_DragFindsSimulation ==
  [][ /\ \A id \in Range(dom.nodes) : DragStart(id) => state.simulation # 0
      /\ DragEnd => state.simulation # 0 ]_vars

\* C38: every selected third-party package is one of the known packages.
C38_SelectionIsKnown ==
  Range(state.selectedThirdPartyPackages)
    \subseteq Range(PackageIds(state.availableThirdPartyPackages))

\* C38 happens: a listing asked with pkg1 and pkg2 selected came back with
\* pkg1 only, and pkg1 is what is left selected.
C38_Witness ==
  /\ ev.op = "RootsResponse" /\ ev.resp.ok
  /\ ev.task.query.thirdPartyPackages = <<"pkg1", "pkg2">>
  /\ state.availableThirdPartyPackages = <<"pkg1">>
  /\ state.selectedThirdPartyPackages = <<"pkg1">>

\* The status line tells that a listing or a load is under way.
Loading == dom.status.message \in {"loading-roots", "loading-graph"}

\* C39: when every request is answered in the end, the status is no
\* 'loading' notice whenever no request is in flight, and a 'loading'
\* notice is always replaced by another notice.
C39_LoadingNoticeEnds ==
  /\ [](pending = {} => ~Loading)
  /\ (Loading ~> ~Loading)

\* C39 happens: a load was asked for, every request has been answered, the
\* last one a failed graph load, and the status reports the failure.
C39_Witness ==
  /\ pending = {} /\ asked > 0
  /\ ev.op = "GraphResponse" /\ ~ev.resp.ok
  /\ dom.status = [message |-> "graph-load-failed", level |-> "error"]

====
